---- MODULE Spec2Model ----
(***************************************************************************)
(* A model of arch/arm64/hotplug/autosmp.c: the autosmp hotplug            *)
(* controller.  Three execution contexts share the module's globals:       *)
(*   - the worker that runs asmp_work_fn (the decision cycle),             *)
(*   - the state-notifier thread that runs asmp_suspend / asmp_resume,     *)
(*   - the sysfs writer that runs store_enabled and the tunable stores.    *)
(* Every statement that touches shared state is one step of its context.   *)
(*                                                                         *)
(* cpu_up / cpu_down on a present cpu are taken to succeed; cpu_up on a    *)
(* cpu that is not present (or already online) and cpu_down on an offline  *)
(* cpu fail and change nothing.  Every possible cpu is present.            *)
(***************************************************************************)
EXTENDS Integers, Sequences, FiniteSets, TLC

(* ------------------------------ bounds --------------------------------- *)
\* CONFIG_NR_CPUS: cpus 0 .. NR_CPUS-1 are possible and present.
NR_CPUS == 4
\* The cycle counter is not allowed to grow past MaxCycle (guard of the cycle).
MaxCycle == 3
\* cpufreq_quick_get_max(0), in units in which a percentage is a frequency.
MaxRate == 100

(* ------------------------- program constants --------------------------- *)
\* The seed of slow_rate (line 65).  TLC's integers are 32 bits signed, so the
\* largest of them stands for UINT_MAX: every rate and every product
\* pct * max_rate of the model stays far below it, and the counter is capped.
UINT_MAX == 2147483647
HOTPLUG_ENABLED == 0
MAX_CPUS_LIMIT == 8
DEFAULT_DELAY == 50
DEFAULT_MIN_CPUS == 2
DEFAULT_CPUFREQ_UP == 60
DEFAULT_CPUFREQ_DOWN == 40
DEFAULT_CYCLE_UP == 2
DEFAULT_CYCLE_DOWN == 2

Present == 0 .. (NR_CPUS - 1)

\* p percent of the maximum frequency
Pct(p) == (p * MaxRate) \div 100

\* frequencies cpufreq_quick_get may report to a decision cycle
Rates == {Pct(20), Pct(30), Pct(40), Pct(90)}
\* What a cycle samples when it runs beside the other contexts: every online
\* cpu at 30% or every online cpu at 90% of the maximum frequency.
UniformSamples(mask) == {[c \in mask |-> r] : r \in {Pct(30), Pct(90)}}

VARIABLES
    enabled,          \* static int enabled
    tunables,         \* struct asmp_tunables
    cycle,            \* static unsigned int cycle
    cpu_online_mask,  \* the set of online cpus
    asmp_wq,          \* "null" | "alive" | "freed"
    notifier,         \* asmp_suspend_notif is registered
    asmp_work,        \* "idle" | "timer" (pending) | "cancel" (pending bit held by a canceller)
    wpc,              \* position of asmp_work_fn: "idle" | "sampled" | "acted"
    wl,               \* locals of asmp_work_fn after the scan
    sample,           \* the frequencies the running cycle read (cpu -> rate)
    cmds,             \* the cpu_up / cpu_down calls of the running cycle
    npc,              \* position of the notifier thread
    nl,               \* locals of asmp_suspend / asmp_resume: cpu, num_cpus
    spc,              \* position of the sysfs writer in store_enabled
    sl,               \* local of asmp_hotplug_stop: cpu
    oops,             \* the kernel has crashed
    hist              \* observation only:
                      \*   alone: no start or stop has run beside the running asmp_suspend
                      \*   suspended1: such an asmp_suspend has returned, having read
                      \*     scroff_single_core set, and no resume, start or stop has
                      \*     begun since
                      \*   halted: such an asmp_suspend, or asmp_hotplug_stop, has
                      \*     returned, and neither asmp_resume nor asmp_hotplug_start
                      \*     has armed the work since
                      \*   res_halted, res_max: halted and max_cpus at the entry of
                      \*     the running asmp_resume
                      \*   log: the tunable stores are being recorded
                      \*   wr: the last tunable store recorded: the attribute, the
                      \*     value written and what the store returned

vars == <<enabled, tunables, cycle, cpu_online_mask, asmp_wq, notifier, asmp_work,
          wpc, wl, sample, cmds, npc, nl, spc, sl, oops, hist>>

(* ----------------------------- helpers --------------------------------- *)
Min(S) == CHOOSE x \in S : \A y \in S : x <= y

\* cpu_up(cpu): fails for a cpu that is not present or already online
cpu_up(mask, cpu) == IF cpu \in Present THEN mask \cup {cpu} ELSE mask

\* cpu_down(cpu): fails for a cpu that is not online
cpu_down(mask, cpu) == mask \ {cpu}

\* cpumask_next_zero(n, mask): the first cpu > n not in mask, or nr_cpumask_bits
cpumask_next_zero(n, mask) ==
    IF \E c \in Present : c > n /\ c \notin mask
    THEN Min({c \in Present : c > n /\ c \notin mask})
    ELSE NR_CPUS

DefaultTunables ==
    [delay |-> DEFAULT_DELAY, scroff_single_core |-> 1, max_cpus |-> NR_CPUS,
     min_cpus |-> DEFAULT_MIN_CPUS, cpufreq_up |-> DEFAULT_CPUFREQ_UP,
     cpufreq_down |-> DEFAULT_CPUFREQ_DOWN, cycle_up |-> DEFAULT_CYCLE_UP,
     cycle_down |-> DEFAULT_CYCLE_DOWN]

NoLocals == [num_cpus |-> 0, slow_cpu |-> 0, slow_rate |-> 0, fast_rate |-> 0,
             cpu0_rate |-> 0, up_rate |-> 0, down_rate |-> 0]

(* ------------------------ asmp_work_fn, lines 62-115 ------------------- *)
\* ScanStep with rate < slow_rate as the test of line 85.
ScanStep_strict(st, cpu, rate) ==
    IF cpu > 0
    THEN IF rate < st.slow_rate
         THEN [st EXCEPT !.slow_cpu = cpu, !.slow_rate = rate]
         ELSE IF rate > st.fast_rate
              THEN [st EXCEPT !.fast_rate = rate]
              ELSE st
    ELSE st

\* One iteration of for_each_online_cpu (lines 83-91) on the scan state st.
ScanStep(st, cpu, rate) ==
    IF cpu > 0
    THEN IF rate <= st.slow_rate
         THEN [st EXCEPT !.slow_cpu = cpu, !.slow_rate = rate]
         ELSE IF rate > st.fast_rate
              THEN [st EXCEPT !.fast_rate = rate]
              ELSE st
    ELSE st

\* for_each_online_cpu in ascending cpu order, from cpu c on (lines 82-92).
RECURSIVE ScanFrom(_, _, _, _)
ScanFrom(st, c, mask, f) ==
    IF c >= NR_CPUS THEN st
    ELSE ScanFrom(IF c \in mask THEN ScanStep(st, c, f[c]) ELSE st, c + 1, mask, f)

\* Lines 71-96: the rates, the snapshot of the online cpus, the scan and the
\* correction of slow_rate by cpu 0's rate.
asmp_scan(t, mask, f) ==
    LET st0 == [slow_cpu |-> 0, slow_rate |-> UINT_MAX, fast_rate |-> f[0]]
        st  == ScanFrom(st0, 0, mask, f)
    IN  [num_cpus  |-> Cardinality(mask),
         slow_cpu  |-> st.slow_cpu,
         slow_rate |-> IF f[0] < st.slow_rate THEN f[0] ELSE st.slow_rate,
         fast_rate |-> st.fast_rate,
         cpu0_rate |-> f[0],
         up_rate   |-> (t.cpufreq_up * MaxRate) \div 100,
         down_rate |-> (t.cpufreq_down * MaxRate) \div 100]

\* asmp_decide with the downshift tested on its own, not as the else branch.
asmp_decide_both(l, t, cyc, mask) ==
    LET up == l.slow_rate > l.up_rate /\ l.num_cpus < t.max_cpus /\ cyc >= t.cycle_up
        dn == l.slow_cpu # 0 /\ l.fast_rate < l.down_rate
              /\ l.num_cpus > t.min_cpus /\ cyc >= t.cycle_down
    IN  [calls |-> (IF up THEN << <<"up", cpumask_next_zero(0, mask)>> >> ELSE << >>)
                   \o (IF dn THEN << <<"down", l.slow_cpu>> >> ELSE << >>),
         cycle |-> IF up \/ dn THEN 0 ELSE cyc]

\* asmp_decide without the test of num_cpus against max_cpus (line 99).
asmp_decide_nomax(l, t, cyc, mask) ==
    IF l.slow_rate > l.up_rate
    THEN IF cyc >= t.cycle_up
         THEN [calls |-> << <<"up", cpumask_next_zero(0, mask)>> >>, cycle |-> 0]
         ELSE [calls |-> << >>, cycle |-> cyc]
    ELSE IF l.slow_cpu # 0 /\ l.fast_rate < l.down_rate
         THEN IF l.num_cpus > t.min_cpus /\ cyc >= t.cycle_down
              THEN [calls |-> << <<"down", l.slow_cpu>> >>, cycle |-> 0]
              ELSE [calls |-> << >>, cycle |-> cyc]
         ELSE [calls |-> << >>, cycle |-> cyc]

\* asmp_decide without the test of num_cpus against min_cpus (line 106).
asmp_decide_nomin(l, t, cyc, mask) ==
    IF l.slow_rate > l.up_rate
    THEN IF l.num_cpus < t.max_cpus /\ cyc >= t.cycle_up
         THEN [calls |-> << <<"up", cpumask_next_zero(0, mask)>> >>, cycle |-> 0]
         ELSE [calls |-> << >>, cycle |-> cyc]
    ELSE IF l.slow_cpu # 0 /\ l.fast_rate < l.down_rate
         THEN IF cyc >= t.cycle_down
              THEN [calls |-> << <<"down", l.slow_cpu>> >>, cycle |-> 0]
              ELSE [calls |-> << >>, cycle |-> cyc]
         ELSE [calls |-> << >>, cycle |-> cyc]

\* asmp_decide with slow_rate, not fast_rate, compared to down_rate (line 105).
asmp_decide_slowdown(l, t, cyc, mask) ==
    IF l.slow_rate > l.up_rate
    THEN IF l.num_cpus < t.max_cpus /\ cyc >= t.cycle_up
         THEN [calls |-> << <<"up", cpumask_next_zero(0, mask)>> >>, cycle |-> 0]
         ELSE [calls |-> << >>, cycle |-> cyc]
    ELSE IF l.slow_cpu # 0 /\ l.slow_rate < l.down_rate
         THEN IF l.num_cpus > t.min_cpus /\ cyc >= t.cycle_down
              THEN [calls |-> << <<"down", l.slow_cpu>> >>, cycle |-> 0]
              ELSE [calls |-> << >>, cycle |-> cyc]
         ELSE [calls |-> << >>, cycle |-> cyc]

\* Lines 98-111: the calls the cycle makes and the counter it leaves.
asmp_decide(l, t, cyc, mask) ==
    IF l.slow_rate > l.up_rate
    THEN IF l.num_cpus < t.max_cpus /\ cyc >= t.cycle_up
         THEN [calls |-> << <<"up", cpumask_next_zero(0, mask)>> >>, cycle |-> 0]
         ELSE [calls |-> << >>, cycle |-> cyc]
    ELSE IF l.slow_cpu # 0 /\ l.fast_rate < l.down_rate
         THEN IF l.num_cpus > t.min_cpus /\ cyc >= t.cycle_down
              THEN [calls |-> << <<"down", l.slow_cpu>> >>, cycle |-> 0]
              ELSE [calls |-> << >>, cycle |-> cyc]
         ELSE [calls |-> << >>, cycle |-> cyc]

\* The online mask after the calls of one cycle.
RECURSIVE ApplyCalls(_, _)
ApplyCalls(mask, calls) ==
    IF calls = << >> THEN mask
    ELSE LET c == Head(calls)
         IN  ApplyCalls(IF c[1] = "up" THEN cpu_up(mask, c[2]) ELSE cpu_down(mask, c[2]),
                        Tail(calls))

\* queue_delayed_work: arms the timer unless the work is already pending
queue_delayed_work(w) == IF w = "idle" THEN "timer" ELSE w

\* The worker runs lines 69-96 of the pending work: the pending bit is
\* cleared, the counter incremented, the frequencies f read under
\* get_online_cpus() and the scan made.
WorkRun(f) ==
    /\ ~oops
    /\ asmp_work = "timer" /\ wpc = "idle"
    /\ cycle < MaxCycle
    /\ asmp_work' = "idle"
    /\ wpc' = "sampled"
    /\ cycle' = cycle + 1
    /\ wl' = asmp_scan(tunables, cpu_online_mask, f)
    /\ sample' = f
    /\ cmds' = << >>
    /\ UNCHANGED <<enabled, tunables, cpu_online_mask, asmp_wq, notifier, npc, nl,
                   spc, sl, oops, hist>>

\* The timer fires on a live workqueue.
asmp_work_sample(f) == asmp_wq = "alive" /\ WorkRun(f)

\* The timer fires after destroy_workqueue (line 221) freed the workqueue it
\* points to: undefined behaviour.  The freed memory may still be intact and
\* the work runs ...
asmp_work_stale(f) == asmp_wq = "freed" /\ WorkRun(f)

\* ... or the kernel crashes.
asmp_work_oops ==
    /\ ~oops /\ asmp_wq # "alive"
    /\ asmp_work = "timer" /\ wpc = "idle"
    /\ oops' = TRUE
    /\ UNCHANGED <<enabled, tunables, cycle, cpu_online_mask, asmp_wq, notifier,
                   asmp_work, wpc, wl, sample, cmds, npc, nl, spc, sl, hist>>

\* Lines 98-111.
asmp_work_act ==
    /\ ~oops /\ wpc = "sampled"
    /\ LET d == asmp_decide(wl, tunables, cycle, cpu_online_mask)
       IN  /\ cmds' = d.calls
           /\ cycle' = d.cycle
           /\ cpu_online_mask' = ApplyCalls(cpu_online_mask, d.calls)
    /\ wpc' = "acted"
    /\ UNCHANGED <<enabled, tunables, asmp_wq, notifier, asmp_work, wl, sample,
                   npc, nl, spc, sl, oops, hist>>

\* Lines 113-114: the cycle re-arms itself and returns.
asmp_work_requeue ==
    /\ ~oops /\ wpc = "acted"
    /\ asmp_work' = queue_delayed_work(asmp_work)
    /\ wpc' = "idle"
    /\ wl' = NoLocals
    /\ sample' = << >>
    /\ cmds' = << >>
    /\ UNCHANGED <<enabled, tunables, cycle, cpu_online_mask, asmp_wq, notifier,
                   npc, nl, spc, sl, oops, hist>>

(* --------------- cancel_delayed_work_sync, lines 131 and 216 ----------- *)
\* The canceller takes the pending bit (a pending timer is deleted) and keeps
\* it while it waits, so that a running cycle cannot re-arm the work.
cancel_grab(w) == "cancel"

\* The wait is over when no cycle is running; the pending bit is released.
cancel_release(w) == IF w = "cancel" THEN "idle" ELSE w

NoNotifierLocals == [cpu |-> 0, num_cpus |-> 0, scroff |-> 0]

NoWrite == [name |-> "", val |-> 0, ret |-> ""]

NoHist == [suspended1 |-> FALSE, halted |-> FALSE, alone |-> FALSE,
           res_halted |-> FALSE, res_max |-> 0, log |-> FALSE, wr |-> NoWrite]

(* --------------- state_notifier_callback, lines 160-177 ---------------- *)
STATE_NOTIFIER_ACTIVE == "ACTIVE"
STATE_NOTIFIER_SUSPEND == "SUSPEND"

\* Lines 163-172 with the entry of asmp_suspend (121-124) or asmp_resume
\* (140-144): enabled is tested, scroff_single_core read, and for a resume
\* num_online_cpus() taken once.  The chain runs one callback at a time.
state_notifier_callback(event) ==
    /\ ~oops /\ notifier /\ npc = "idle"
    /\ enabled # 0
    /\ nl' = [cpu |-> 0,
              num_cpus |-> IF event = STATE_NOTIFIER_ACTIVE
                           THEN Cardinality(cpu_online_mask) ELSE 0,
              scroff |-> tunables.scroff_single_core]
    /\ npc' = IF event = STATE_NOTIFIER_SUSPEND
              THEN (IF tunables.scroff_single_core # 0 THEN "susp_loop" ELSE "susp_cancel")
              ELSE (IF tunables.scroff_single_core # 0 THEN "res_loop" ELSE "res_queue")
    /\ hist' = [hist EXCEPT
                  !.suspended1 = IF event = STATE_NOTIFIER_ACTIVE THEN FALSE ELSE @,
                  !.alone = event = STATE_NOTIFIER_SUSPEND /\ spc = "idle",
                  !.res_halted = event = STATE_NOTIFIER_ACTIVE /\ hist.halted,
                  !.res_max = IF event = STATE_NOTIFIER_ACTIVE THEN tunables.max_cpus ELSE 0]
    /\ UNCHANGED <<enabled, tunables, cycle, cpu_online_mask, asmp_wq, notifier,
                   asmp_work, wpc, wl, sample, cmds, spc, sl, oops>>

\* Lines 163-164: a notification while enabled is 0 does nothing.
state_notifier_ignored(event) ==
    /\ ~oops /\ notifier /\ npc = "idle"
    /\ enabled = 0
    /\ UNCHANGED vars

(* ----------------------- asmp_suspend, lines 117-134 ------------------- *)
\* asmp_suspend_target with the test cpu > 0 left out.
asmp_suspend_target_any(cpu, mask) == cpu \in mask

\* Line 126: whether the loop takes the cpu offline.
asmp_suspend_target(cpu, mask) == cpu > 0 /\ cpu \in mask

\* One iteration of for_each_present_cpu, lines 125-128.
asmp_suspend_loop ==
    /\ ~oops /\ npc = "susp_loop"
    /\ cpu_online_mask' = IF asmp_suspend_target(nl.cpu, cpu_online_mask)
                          THEN cpu_down(cpu_online_mask, nl.cpu)
                          ELSE cpu_online_mask
    /\ nl' = [nl EXCEPT !.cpu = @ + 1]
    /\ npc' = IF nl.cpu + 1 >= NR_CPUS THEN "susp_cancel" ELSE "susp_loop"
    /\ UNCHANGED <<enabled, tunables, cycle, asmp_wq, notifier, asmp_work, wpc, wl,
                   sample, cmds, spc, sl, oops, hist>>

\* Line 131, first half: a pending cycle is cancelled.
asmp_suspend_cancel ==
    /\ ~oops /\ npc = "susp_cancel"
    /\ asmp_work # "cancel"
    /\ asmp_work' = cancel_grab(asmp_work)
    /\ npc' = "susp_wait"
    /\ UNCHANGED <<enabled, tunables, cycle, cpu_online_mask, asmp_wq, notifier,
                   wpc, wl, sample, cmds, nl, spc, sl, oops, hist>>

\* Line 131, second half, and the return: a running cycle has finished.
asmp_suspend_return ==
    /\ ~oops /\ npc = "susp_wait"
    /\ wpc = "idle"
    /\ asmp_work' = cancel_release(asmp_work)
    /\ npc' = "idle"
    /\ nl' = NoNotifierLocals
    /\ hist' = [hist EXCEPT !.suspended1 = nl.scroff = 1 /\ hist.alone,
                             !.halted = hist.alone,
                             !.alone = FALSE]
    /\ UNCHANGED <<enabled, tunables, cycle, cpu_online_mask, asmp_wq, notifier,
                   wpc, wl, sample, cmds, spc, sl, oops>>

(* ----------------------- asmp_resume, lines 136-158 -------------------- *)
\* One iteration of for_each_present_cpu, lines 146-151.  num_cpus is the
\* count taken at line 144; the loop does not update it.
asmp_resume_loop ==
    /\ ~oops /\ npc = "res_loop"
    /\ IF nl.num_cpus >= tunables.max_cpus
       THEN /\ npc' = "res_queue"
            /\ UNCHANGED <<cpu_online_mask, nl>>
       ELSE /\ cpu_online_mask' = IF nl.cpu \notin cpu_online_mask
                                  THEN cpu_up(cpu_online_mask, nl.cpu)
                                  ELSE cpu_online_mask
            /\ nl' = [nl EXCEPT !.cpu = @ + 1]
            /\ npc' = IF nl.cpu + 1 >= NR_CPUS THEN "res_queue" ELSE "res_loop"
    /\ UNCHANGED <<enabled, tunables, cycle, asmp_wq, notifier, asmp_work, wpc, wl,
                   sample, cmds, spc, sl, oops, hist>>

\* Lines 154-157: the cycle is re-armed and asmp_resume returns.
asmp_resume_return ==
    /\ ~oops /\ npc = "res_queue"
    /\ asmp_work' = queue_delayed_work(asmp_work)
    /\ npc' = "idle"
    /\ nl' = NoNotifierLocals
    /\ hist' = [hist EXCEPT !.halted = FALSE, !.res_halted = FALSE, !.res_max = 0]
    /\ UNCHANGED <<enabled, tunables, cycle, cpu_online_mask, asmp_wq, notifier,
                   wpc, wl, sample, cmds, spc, sl, oops>>

(* ------------------- asmp_hotplug_start, lines 183-209 ----------------- *)
\* Lines 187-191: alloc_workqueue succeeds or not.
asmp_start_alloc(ok) ==
    /\ ~oops /\ spc = "start_alloc"
    /\ asmp_wq' = IF ok THEN "alive" ELSE "null"
    /\ spc' = IF ok THEN "start_register" ELSE "idle"
    /\ UNCHANGED <<enabled, tunables, cycle, cpu_online_mask, notifier, asmp_work,
                   wpc, wl, sample, cmds, npc, nl, sl, oops, hist>>

\* Lines 193-197 and 205-208: state_register_client succeeds, or fails and
\* the workqueue is destroyed (asmp_wq keeps pointing to it).
asmp_start_register(ok) ==
    /\ ~oops /\ spc = "start_register"
    /\ notifier' = ok
    /\ asmp_wq' = IF ok THEN asmp_wq ELSE "freed"
    /\ spc' = IF ok THEN "start_queue" ELSE "idle"
    /\ UNCHANGED <<enabled, tunables, cycle, cpu_online_mask, asmp_work,
                   wpc, wl, sample, cmds, npc, nl, sl, oops, hist>>

\* What INIT_DELAYED_WORK (line 199) can do: on a work that is neither
\* pending nor running it re-initialises it; on one that is, the behaviour
\* is undefined (the armed timer is overwritten) and the kernel may crash.
InitWorkOutcomes == IF asmp_work = "timer" \/ wpc # "idle"
                    THEN {"init", "oops"} ELSE {"init"}

\* Lines 199-203: the work is initialised and armed with the start-up delay.
\* The counter is not touched.
asmp_start_queue(outcome) ==
    /\ ~oops /\ spc = "start_queue"
    /\ outcome \in InitWorkOutcomes
    /\ oops' = (outcome = "oops")
    /\ asmp_work' = IF outcome = "init" THEN "timer" ELSE asmp_work
    /\ spc' = "idle"
    /\ hist' = [hist EXCEPT !.halted = IF outcome = "init" THEN FALSE ELSE @]
    /\ UNCHANGED <<enabled, tunables, cycle, cpu_online_mask, asmp_wq, notifier,
                   wpc, wl, sample, cmds, npc, nl, sl>>

(* ------------------- asmp_hotplug_stop, lines 211-228 ------------------ *)
\* What flush_workqueue(asmp_wq) (line 215) can do: return once no cycle is
\* queued or running; dereference a NULL asmp_wq and crash; on a freed
\* workqueue (a start that failed at line 193) either of the two.
FlushOutcomes ==
    CASE asmp_wq = "alive" -> {"flushed"}
      [] asmp_wq = "null"  -> {"oops"}
      [] OTHER             -> {"flushed", "oops"}

asmp_stop_flush(outcome) ==
    /\ ~oops /\ spc = "stop_flush"
    /\ outcome \in FlushOutcomes
    /\ outcome = "flushed" => wpc = "idle"
    /\ oops' = (outcome = "oops")
    /\ spc' = IF outcome = "flushed" THEN "stop_cancel" ELSE "idle"
    /\ UNCHANGED <<enabled, tunables, cycle, cpu_online_mask, asmp_wq, notifier,
                   asmp_work, wpc, wl, sample, cmds, npc, nl, sl, hist>>

\* Line 216, first half.
asmp_stop_cancel ==
    /\ ~oops /\ spc = "stop_cancel"
    /\ asmp_work # "cancel"
    /\ asmp_work' = cancel_grab(asmp_work)
    /\ spc' = "stop_wait"
    /\ UNCHANGED <<enabled, tunables, cycle, cpu_online_mask, asmp_wq, notifier,
                   wpc, wl, sample, cmds, npc, nl, sl, oops, hist>>

\* Line 216, second half.
asmp_stop_wait ==
    /\ ~oops /\ spc = "stop_wait"
    /\ wpc = "idle"
    /\ asmp_work' = cancel_release(asmp_work)
    /\ spc' = "stop_unregister"
    /\ UNCHANGED <<enabled, tunables, cycle, cpu_online_mask, asmp_wq, notifier,
                   wpc, wl, sample, cmds, npc, nl, sl, oops, hist>>

\* What destroy_workqueue (line 221) can do: free the workqueue, or, on one
\* that line 206 has freed already, free it again or crash.
DestroyOutcomes == IF asmp_wq = "alive" THEN {"destroyed"} ELSE {"destroyed", "oops"}

\* Lines 218-221: state_unregister_client waits for a callback that is
\* running (the chain is a blocking one); destroy_workqueue waits for a cycle
\* that is running and frees the workqueue.  A timer that is armed stays armed.
asmp_stop_destroy(outcome) ==
    /\ ~oops /\ spc = "stop_unregister"
    /\ npc = "idle"
    /\ wpc = "idle"
    /\ outcome \in DestroyOutcomes
    /\ oops' = (outcome = "oops")
    /\ notifier' = FALSE
    /\ asmp_wq' = "freed"
    /\ spc' = IF outcome = "oops" THEN "idle" ELSE "stop_loop"
    /\ sl' = IF outcome = "oops" THEN 0 ELSE -1
    /\ UNCHANGED <<enabled, tunables, cycle, cpu_online_mask, asmp_work,
                   wpc, wl, sample, cmds, npc, nl, hist>>

\* One iteration of for_each_cpu_not(cpu, cpu_online_mask), lines 223-227,
\* or the end of the loop and the return.
asmp_stop_loop ==
    /\ ~oops /\ spc = "stop_loop"
    /\ LET cpu == cpumask_next_zero(sl, cpu_online_mask)
       IN  IF cpu < NR_CPUS
           THEN /\ cpu_online_mask' = IF cpu = 0 THEN cpu_online_mask
                                      ELSE cpu_up(cpu_online_mask, cpu)
                /\ sl' = cpu
                /\ spc' = "stop_loop"
                /\ hist' = hist
           ELSE /\ spc' = "idle"
                /\ sl' = 0
                /\ hist' = [hist EXCEPT !.halted = TRUE]
                /\ UNCHANGED cpu_online_mask
    /\ UNCHANGED <<enabled, tunables, cycle, asmp_wq, notifier, asmp_work, wpc, wl,
                   sample, cmds, npc, nl, oops>>

(* ----------------------- store_enabled, lines 265-282 ------------------ *)
\* An accepted write: enabled is set, then start or stop runs.
store_enabled(val) ==
    /\ ~oops /\ spc = "idle"
    /\ ~(val < 0 \/ val > 1 \/ val = enabled)
    /\ enabled' = val
    /\ spc' = IF val # 0 THEN "start_alloc" ELSE "stop_flush"
    /\ hist' = [hist EXCEPT !.suspended1 = FALSE, !.alone = FALSE]
    /\ UNCHANGED <<tunables, cycle, cpu_online_mask, asmp_wq, notifier, asmp_work,
                   wpc, wl, sample, cmds, npc, nl, sl, oops>>

\* Line 272-273: a rejected write returns -EINVAL.
store_enabled_einval(val) ==
    /\ ~oops /\ spc = "idle"
    /\ (val < 0 \/ val > 1 \/ val = enabled)
    /\ UNCHANGED vars

(* ------------------------ store_one, lines 238-252 --------------------- *)
\* The limits of each store, lines 293-300.
down_limit(name) ==
    CASE name = "delay" -> 10
      [] name = "scroff_single_core" -> 0
      [] name = "min_cpus" -> 1
      [] name = "max_cpus" -> tunables.min_cpus
      [] OTHER -> 1

\* up_limit with the constant 8 as the upper limit of min_cpus too.
up_limit_const(name) ==
    CASE name = "delay" -> 10000
      [] name = "scroff_single_core" -> 1
      [] name \in {"min_cpus", "max_cpus"} -> MAX_CPUS_LIMIT
      [] name \in {"cpufreq_up", "cpufreq_down"} -> 100
      [] OTHER -> 6

up_limit(name) ==
    CASE name = "delay" -> 10000
      [] name = "scroff_single_core" -> 1
      [] name = "min_cpus" -> tunables.max_cpus
      [] name = "max_cpus" -> MAX_CPUS_LIMIT
      [] name \in {"cpufreq_up", "cpufreq_down"} -> 100
      [] OTHER -> 6

\* The record of a store of val to the attribute name that returned ret.
Logged(h, name, val, ret) ==
    IF h.log THEN [h EXCEPT !.wr = [name |-> name, val |-> val, ret |-> ret]] ELSE h

\* val is the integer sscanf read.  Lines 249-251: the store is accepted and
\* returns count.
store_one(name, val) ==
    /\ ~oops
    /\ ~(val < down_limit(name) \/ val > up_limit(name))
    /\ tunables' = [tunables EXCEPT ![name] = val]
    /\ hist' = Logged(hist, name, val, "count")
    /\ UNCHANGED <<enabled, cycle, cpu_online_mask, asmp_wq, notifier, asmp_work,
                   wpc, wl, sample, cmds, npc, nl, spc, sl, oops>>

\* Lines 246-247: the store returns -EINVAL before it assigns anything.
store_one_einval(name, val) ==
    /\ ~oops
    /\ (val < down_limit(name) \/ val > up_limit(name))
    /\ hist' = Logged(hist, name, val, "EINVAL")
    /\ UNCHANGED <<enabled, tunables, cycle, cpu_online_mask, asmp_wq, notifier,
                   asmp_work, wpc, wl, sample, cmds, npc, nl, spc, sl, oops>>

(* --------------------------- the whole system -------------------------- *)
\* The values written while the three contexts run beside each other: for
\* each tunable one the store rejects, and for scroff_single_core and max_cpus
\* the ones that change what suspend and resume do.
Writes(name) ==
    CASE name = "delay" -> {9}
      [] name = "scroff_single_core" -> {0, 1, 2}
      [] name = "min_cpus" -> {0}
      [] name = "max_cpus" -> {2, MAX_CPUS_LIMIT + 1}
      [] name = "cpufreq_up" -> {0}
      [] name = "cpufreq_down" -> {101}
      [] name = "cycle_up" -> {0}
      [] OTHER -> {7}

TunableNames == {"delay", "scroff_single_core", "min_cpus", "max_cpus",
                 "cpufreq_up", "cpufreq_down", "cycle_up", "cycle_down"}

\* The state after asmp_init / asmp_probe (lines 330-361, 386-401) with
\* enabled = HOTPLUG_ENABLED = 0: nothing is started; every cpu is online.
Init ==
    /\ enabled = HOTPLUG_ENABLED
    /\ tunables = DefaultTunables
    /\ cycle = 0
    /\ cpu_online_mask = Present
    /\ asmp_wq = "null" /\ notifier = FALSE /\ asmp_work = "idle"
    /\ wpc = "idle" /\ wl = NoLocals /\ sample = << >> /\ cmds = << >>
    /\ npc = "idle" /\ nl = NoNotifierLocals
    /\ spc = "idle" /\ sl = 0
    /\ oops = FALSE
    /\ hist = NoHist

Next ==
    \/ \E f \in UniformSamples(cpu_online_mask \cup {0}) : asmp_work_sample(f)
    \/ \E f \in UniformSamples(cpu_online_mask \cup {0}) : asmp_work_stale(f)
    \/ asmp_work_oops
    \/ asmp_work_act
    \/ asmp_work_requeue
    \/ \E e \in {STATE_NOTIFIER_ACTIVE, STATE_NOTIFIER_SUSPEND} : state_notifier_callback(e)
    \/ \E e \in {STATE_NOTIFIER_ACTIVE, STATE_NOTIFIER_SUSPEND} : state_notifier_ignored(e)
    \/ asmp_suspend_loop
    \/ asmp_suspend_cancel
    \/ asmp_suspend_return
    \/ asmp_resume_loop
    \/ asmp_resume_return
    \/ \E val \in {0, 1, 2} : store_enabled(val)
    \/ \E val \in {0, 1, 2} : store_enabled_einval(val)
    \/ \E ok \in BOOLEAN : asmp_start_alloc(ok)
    \/ \E ok \in BOOLEAN : asmp_start_register(ok)
    \/ \E o \in {"init", "oops"} : asmp_start_queue(o)
    \/ \E o \in {"flushed", "oops"} : asmp_stop_flush(o)
    \/ asmp_stop_cancel
    \/ asmp_stop_wait
    \/ \E o \in {"destroyed", "oops"} : asmp_stop_destroy(o)
    \/ asmp_stop_loop
    \/ \E name \in TunableNames : \E val \in Writes(name) : store_one(name, val)
    \/ \E name \in TunableNames : \E val \in Writes(name) : store_one_einval(name, val)

Spec == Init /\ [][Next]_vars

(* ------------- the decision cycle alone, on every input ---------------- *)
\* Tunable settings the stores accept (min_cpus <= max_cpus <= 8, the
\* percentages in 1..100, the cycle counts in 1..6); cpufreq_up = 20 puts
\* up_rate below down_rate.
CycleTunables ==
    {[delay |-> DEFAULT_DELAY, scroff_single_core |-> 1, max_cpus |-> mm[2],
      min_cpus |-> mm[1], cpufreq_up |-> up, cpufreq_down |-> DEFAULT_CPUFREQ_DOWN,
      cycle_up |-> DEFAULT_CYCLE_UP, cycle_down |-> cd] :
        mm \in {<<DEFAULT_MIN_CPUS, NR_CPUS>>, <<DEFAULT_MIN_CPUS, MAX_CPUS_LIMIT>>,
                <<1, 2>>, <<1, NR_CPUS>>},
        up \in {20, DEFAULT_CPUFREQ_UP}, cd \in {1, DEFAULT_CYCLE_DOWN}}

\* The controller started and armed, on any such setting, any set of online
\* cpus that holds cpu 0 and any value of the counter.
InitCycle ==
    /\ enabled = 1
    /\ tunables \in CycleTunables
    /\ cycle \in 0 .. (MaxCycle - 1)
    /\ cpu_online_mask \in {m \in SUBSET Present : 0 \in m}
    /\ asmp_wq = "alive" /\ notifier = TRUE /\ asmp_work = "timer"
    /\ wpc = "idle" /\ wl = NoLocals /\ sample = << >> /\ cmds = << >>
    /\ npc = "idle" /\ nl = NoNotifierLocals
    /\ spc = "idle" /\ sl = 0
    /\ oops = FALSE
    /\ hist = NoHist

NextCycle ==
    \/ \E f \in [cpu_online_mask \cup {0} -> Rates] : asmp_work_sample(f)
    \/ asmp_work_act
    \/ asmp_work_requeue

SpecCycle == InitCycle /\ [][NextCycle]_vars

(* ------------- the decision cycle alone, running for ever ------------- *)
\* cycle++ (line 69) with the counter kept at MaxCycle once it is there: the
\* counter is only ever compared with cycle_up and cycle_down (lines 100,
\* 107), which are below MaxCycle in every setting of CycleTunables, so a
\* larger counter decides as MaxCycle does.
cycle_increment(c) == IF c < MaxCycle THEN c + 1 ELSE MaxCycle

\* Lines 69-96 of a cycle, however many cycles have run before.
asmp_work_sample_on(f) ==
    /\ ~oops /\ asmp_wq = "alive"
    /\ asmp_work = "timer" /\ wpc = "idle"
    /\ asmp_work' = "idle"
    /\ wpc' = "sampled"
    /\ cycle' = cycle_increment(cycle)
    /\ wl' = asmp_scan(tunables, cpu_online_mask, f)
    /\ sample' = f
    /\ cmds' = << >>
    /\ UNCHANGED <<enabled, tunables, cpu_online_mask, asmp_wq, notifier, npc, nl,
                   spc, sl, oops, hist>>

NextActive ==
    \/ \E f \in [cpu_online_mask \cup {0} -> Rates] : asmp_work_sample_on(f)
    \/ asmp_work_act
    \/ asmp_work_requeue

\* The worker is scheduled fairly: an armed timer fires, a cycle that has
\* begun goes on to its end.
SpecActive == InitCycle /\ [][NextActive]_vars /\ WF_vars(NextActive)

(* ---------------- the tunable stores alone, recorded ------------------- *)
\* The values written to each attribute: the first value outside each of its
\* limits; for min_cpus and max_cpus every value from 0 to 9; for
\* scroff_single_core and cycle_down a value the store accepts as well.
StoreVals(name) ==
    CASE name = "delay" -> {9, 10001}
      [] name = "scroff_single_core" -> {-1, 0, 2}
      [] name \in {"min_cpus", "max_cpus"} -> 0 .. (MAX_CPUS_LIMIT + 1)
      [] name \in {"cpufreq_up", "cpufreq_down"} -> {0, 101}
      [] name = "cycle_up" -> {0, 7}
      [] OTHER -> {0, 1, 7}

\* The module loaded, nothing started, the stores recorded.
InitStore ==
    /\ enabled = HOTPLUG_ENABLED
    /\ tunables = DefaultTunables
    /\ cycle = 0
    /\ cpu_online_mask = Present
    /\ asmp_wq = "null" /\ notifier = FALSE /\ asmp_work = "idle"
    /\ wpc = "idle" /\ wl = NoLocals /\ sample = << >> /\ cmds = << >>
    /\ npc = "idle" /\ nl = NoNotifierLocals
    /\ spc = "idle" /\ sl = 0
    /\ oops = FALSE
    /\ hist = [NoHist EXCEPT !.log = TRUE]

NextStore ==
    \/ \E name \in TunableNames : \E val \in StoreVals(name) : store_one(name, val)
    \/ \E name \in TunableNames : \E val \in StoreVals(name) : store_one_einval(name, val)

SpecStore == InitStore /\ [][NextStore]_vars

(* ======================= properties of one cycle ======================= *)
Issues(calls, kind) == \E i \in 1 .. Len(calls) : calls[i][1] = kind

\* The step of a cycle that runs lines 98-111.
ActStep == wpc = "sampled" /\ wpc' = "acted"

SampleMin == Min({sample[c] : c \in DOMAIN sample})

\* C1: a decision cycle issues at most one topology command: one cpu_up, or
\* one cpu_down, or none; never both and never two of a kind.
C1_AtMostOneCommand == Len(cmds) <= 1

\* A cycle has issued its one command although the frequencies met the
\* thresholds of both rules (slow_rate > up_rate and fast_rate < down_rate).
C1_Witness ==
    /\ wpc = "acted" /\ Len(cmds) = 1
    /\ wl.slow_rate > wl.up_rate
    /\ wl.slow_cpu # 0 /\ wl.fast_rate < wl.down_rate
    /\ wl.num_cpus > tunables.min_cpus /\ wl.num_cpus < tunables.max_cpus
    /\ tunables.cycle_up = tunables.cycle_down

\* C2: a cycle calls cpu_up only if the online count it sampled is below
\* max_cpus, the incremented counter is >= cycle_up and slow_rate, the lowest
\* frequency of all the online cpus, cpu 0 included, is > up_rate; the counter
\* is then 0 until the cycle ends.  With the online count at max_cpus no cycle
\* calls cpu_up.
C2_UpshiftOnlyIf ==
    /\ [][(ActStep /\ Issues(cmds', "up")) =>
            /\ wl.num_cpus < tunables.max_cpus
            /\ cycle >= tunables.cycle_up
            /\ wl.slow_rate > wl.up_rate
            /\ wl.slow_rate = SampleMin
            /\ cycle' = 0]_vars
    /\ []((wpc = "acted" /\ Issues(cmds, "up")) =>
            cycle = 0 /\ wl.num_cpus # tunables.max_cpus)

C2_Witness ==
    /\ wpc = "acted" /\ Issues(cmds, "up") /\ cycle = 0
    /\ wl.num_cpus = tunables.max_cpus - 1

\* C3: a cycle calls cpu_down only if the online count it sampled is above
\* min_cpus, the incremented counter is >= cycle_down, slow_cpu is not cpu 0
\* and fast_rate < down_rate; the counter is then 0 until the cycle ends.
\* With the online count at min_cpus no cycle calls cpu_down.
C3_DownshiftOnlyIf ==
    /\ [][(ActStep /\ Issues(cmds', "down")) =>
            /\ wl.num_cpus > tunables.min_cpus
            /\ cycle >= tunables.cycle_down
            /\ wl.slow_cpu # 0
            /\ wl.fast_rate < wl.down_rate
            /\ cycle' = 0]_vars
    /\ []((wpc = "acted" /\ Issues(cmds, "down")) =>
            cycle = 0 /\ wl.num_cpus # tunables.min_cpus)

C3_Witness ==
    /\ wpc = "acted" /\ Issues(cmds, "down") /\ cycle = 0
    /\ wl.num_cpus = tunables.min_cpus + 1

\* The scenario of C9 after the cycle's increment: 4 present cpus, all
\* online, sampled at 90%, 20%, 30% and 40% of the maximum frequency;
\* cpufreq_down = 40, min_cpus = 2, cycle_down = 1, the other tunables at
\* their defaults; the counter, 1 when the cycle began, is 2.
Scenario9 ==
    /\ Cardinality(Present) = 4 /\ cpu_online_mask = Present
    /\ sample = [c \in Present |->
                   CASE c = 0 -> Pct(90) [] c = 1 -> Pct(20) [] c = 2 -> Pct(30)
                     [] OTHER -> Pct(40)]
    /\ tunables = [DefaultTunables EXCEPT !.cycle_down = 1]
    /\ cycle = 2

\* C9 as the spec states it: in the scenario the cycle takes cpu 1, the cpu
\* at 20%, offline and resets the counter to 0.
C9_ScenarioFiresDownshift ==
    [][(ActStep /\ Scenario9) =>
         /\ cmds' = << <<"down", 1>> >>
         /\ 1 \notin cpu_online_mask'
         /\ cycle' = 0]_vars

\* C9 amended: in the scenario the cycle issues no command, since fast_rate
\* is cpu 0's 90%, which is not below down_rate (40%): the four cpus stay
\* online and the counter stays at 2.
C9_ScenarioNoDownshift ==
    [][(ActStep /\ Scenario9) =>
         /\ cmds' = << >>
         /\ cpu_online_mask' = cpu_online_mask
         /\ cycle' = 2]_vars

\* The cycle of the scenario has run lines 98-111.
C9_Witness ==
    /\ wpc = "acted" /\ Scenario9
    /\ wl.slow_cpu = 1 /\ wl.slow_rate = Pct(20) /\ wl.fast_rate = Pct(90)
    /\ wl.down_rate = Pct(40)

\* C10: the cpu_up of an upshift targets the lowest-numbered present cpu
\* that is offline at that moment.
C10_UpshiftTargetsLowestOffline ==
    [][(ActStep /\ Issues(cmds', "up")) =>
         /\ Len(cmds') = 1
         /\ cmds'[1][2] \in Present \ cpu_online_mask
         /\ \A c \in Present \ cpu_online_mask : cmds'[1][2] <= c]_vars

Max(S) == CHOOSE x \in S : \A y \in S : x >= y

SampleMax == Max({sample[c] : c \in DOMAIN sample})

\* A cycle has made its scan.
Scanned == wpc \in {"sampled", "acted"}

\* C14: the fast_rate of a cycle is the highest and its slow_rate the lowest
\* of the frequencies it sampled on the online cpus, cpu 0 included; so a
\* cycle calls cpu_down only when every online cpu was sampled below
\* down_rate.
C14_FastRateIsMax ==
    /\ [](Scanned => (wl.fast_rate = SampleMax /\ wl.slow_rate = SampleMin))
    /\ [][(ActStep /\ Issues(cmds', "down")) =>
            \A c \in DOMAIN sample : sample[c] < wl.down_rate]_vars

\* C15: a cycle that does not call cpu_up, with slow_cpu not cpu 0,
\* fast_rate < down_rate, the online count above min_cpus and the counter
\* >= cycle_down, calls cpu_down(slow_cpu) and resets the counter, whatever
\* kept the upshift from firing.
C15_DownshiftWheneverNoUpshift ==
    [][(ActStep /\ ~Issues(cmds', "up")
          /\ wl.slow_cpu # 0 /\ wl.fast_rate < wl.down_rate
          /\ wl.num_cpus > tunables.min_cpus /\ cycle >= tunables.cycle_down) =>
         /\ cmds' = << <<"down", wl.slow_cpu>> >>
         /\ wl.slow_cpu \notin cpu_online_mask'
         /\ cycle' = 0]_vars

\* The online cpus other than cpu 0 that the cycle sampled at the lowest
\* frequency among them.
Slowest ==
    LET others == DOMAIN sample \ {0}
    IN  {c \in others : \A d \in others : sample[c] <= sample[d]}

\* C18 as the spec states it: of several cpus tied for the lowest frequency
\* slow_cpu is the lowest-numbered.
C18_TieBreakFirst ==
    (Scanned /\ Cardinality(Slowest) >= 2) => wl.slow_cpu = Min(Slowest)

\* C18 amended: of several cpus tied for the lowest frequency slow_cpu is the
\* last in ascending order, the highest-numbered; it is the cpu a downshift
\* takes offline.
C18_TieBreakLast ==
    /\ (Scanned /\ Cardinality(Slowest) >= 2) => wl.slow_cpu = Max(Slowest)
    /\ (wpc = "acted" /\ Issues(cmds, "down") /\ Cardinality(Slowest) >= 2) =>
           cmds = << <<"down", Max(Slowest)>> >>

\* A downshift has taken one of three tied cpus offline.
C18_Witness ==
    /\ wpc = "acted" /\ Issues(cmds, "down")
    /\ Cardinality(Slowest) >= 3
    /\ Max(Slowest) \notin cpu_online_mask /\ Min(Slowest) \in cpu_online_mask

\* The number of online cpus is within min_cpus .. max_cpus.
InRange ==
    /\ tunables.min_cpus <= Cardinality(cpu_online_mask)
    /\ Cardinality(cpu_online_mask) <= tunables.max_cpus

\* C20: with the tunables fixed and no suspend, resume or stop, the cycles
\* of a fairly scheduled worker bring a number of online cpus that is above
\* max_cpus or below min_cpus into min_cpus .. max_cpus, and no cycle takes
\* it out of that range again.
C20_ConvergesIntoRange ==
    /\ [](~InRange => <>InRange)
    /\ [][InRange => InRange']_vars

(* ============= properties of the three contexts together =============== *)
\* C4: no cpu_down ever targets cpu 0: the slow_cpu a cycle takes offline is
\* never cpu 0 and asmp_suspend never takes cpu 0 offline, so cpu 0, online at
\* the start, is online in every reachable state.
C4_ReferenceCoreStaysOnline ==
    /\ 0 \in cpu_online_mask
    /\ \A i \in 1 .. Len(cmds) : cmds[i][1] = "down" => cmds[i][2] # 0

\* asmp_suspend has gone through every present cpu while a cycle took its
\* slow_cpu offline: cpu 0 alone is left online.
C4_Witness ==
    /\ npc = "susp_cancel" /\ nl.scroff = 1
    /\ wpc = "acted" /\ Issues(cmds, "down")
    /\ cpu_online_mask = {0}

\* C5: after asmp_suspend has returned with enabled and scroff_single_core
\* set, and until the next resume, start or stop, cpu 0 alone is online.
C5_SuspendLeavesOneCore == hist.suspended1 => cpu_online_mask = {0}

\* The return of asmp_resume.
ResumeReturn == npc = "res_queue" /\ npc' = "idle"

\* C6: a resume with scroff_single_core set that finds fewer than max_cpus
\* cpus online (the worker halted by the suspend before it, max_cpus not
\* written meanwhile) returns with min(max_cpus, number of present cpus)
\* cpus online, and never with more than max_cpus.
C6_ResumeStopsAtMaxCpus ==
    [][(ResumeReturn /\ nl.scroff = 1 /\ hist.res_halted
          /\ nl.num_cpus < hist.res_max /\ tunables.max_cpus = hist.res_max) =>
         /\ Cardinality(cpu_online_mask') <= tunables.max_cpus
         /\ Cardinality(cpu_online_mask') = Min({tunables.max_cpus, NR_CPUS})]_vars

\* The return of asmp_hotplug_stop.
StopReturn == spc = "stop_loop" /\ spc' = "idle"

\* C7: when asmp_hotplug_stop returns every present cpu is online.
C7_StopRestoresAllCores == [][StopReturn => cpu_online_mask' = Present]_vars

\* C8: after asmp_suspend (with enabled set) or asmp_hotplug_stop has
\* returned, no decision cycle executes until a later asmp_resume or
\* asmp_hotplug_start arms the work again.
C8_NoCycleWhileHalted ==
    [][hist.halted => ~(wpc = "idle" /\ wpc' = "sampled")]_vars

\* asmp_hotplug_start returns an error: from line 190 or from line 196.
StartFails == spc \in {"start_alloc", "start_register"} /\ spc' = "idle"

\* C12: when asmp_hotplug_start fails (no workqueue, or the notifier is not
\* registered), enabled is 0 again when the store returns and no cycle is
\* armed; asmp_hotplug_stop never runs on a workqueue that start did not
\* leave allocated.
C12_FailedStartReverts ==
    /\ [][StartFails => (enabled' = 0 /\ asmp_work' # "timer")]_vars
    /\ [](spc = "stop_flush" => asmp_wq = "alive")

\* asmp_suspend (no start or stop running beside it) takes a cpu offline;
\* asmp_hotplug_stop brings one online.
SuspendDownStep ==
    npc = "susp_loop" /\ hist.alone /\ cpu_online_mask' # cpu_online_mask
StopUpStep == spc = "stop_loop" /\ cpu_online_mask' # cpu_online_mask

\* C13: asmp_suspend takes no cpu offline, and asmp_hotplug_stop brings no
\* cpu online, while a decision cycle is in flight: the cycle has been
\* waited for before.
C13_NoCycleBesideSuspend ==
    [][(SuspendDownStep \/ StopUpStep) => wpc = "idle"]_vars

\* A cycle, asmp_suspend or asmp_resume changes the set of online cpus (no
\* start or stop is running).
TopologyStep ==
    /\ \/ ActStep
       \/ npc = "susp_loop" /\ nl' # nl /\ hist.alone
       \/ npc = "res_loop" /\ nl' # nl
    /\ spc = "idle"
    /\ cpu_online_mask' # cpu_online_mask

\* C16: while enabled is set the counter is the number of cycles since the
\* online cpus last changed: a cycle adds one to it; it becomes 0 when a
\* cycle, asmp_suspend or asmp_resume really adds or removes a cpu, and only
\* then.
C16_CounterCountsSinceChange ==
    /\ [][(enabled = 1 /\ TopologyStep) => cycle' = 0]_vars
    /\ [][(enabled = 1 /\ wpc = "idle" /\ wpc' = "sampled") => cycle' = cycle + 1]_vars
    /\ [][(enabled = 1 /\ ActStep /\ cpu_online_mask' = cpu_online_mask) =>
            cycle' = cycle]_vars

\* asmp_hotplug_start returns 0, the work armed.
StartReturn == spc = "start_queue" /\ spc' = "idle" /\ ~oops'

\* C17: every asmp_hotplug_start leaves the counter at 0: what it counted
\* before the last stop is not carried over.
C17_StartResetsCounter ==
    /\ [][(StartReturn /\ hist.halted) => cycle' = 0]_vars
    /\ [][(StartReturn /\ cycle = 0) => cycle' = 0]_vars

(* ==================== properties of the tunable stores ================= *)
\* The bounds of C11: whether val is outside the valid bound of the
\* attribute, the tunables being t.
OutOfBound(name, val, t) ==
    CASE name = "delay" -> val < 10 \/ val > 10000
      [] name = "scroff_single_core" -> val < 0 \/ val > 1
      [] name = "min_cpus" -> val < 1 \/ val > t.max_cpus
      [] name = "max_cpus" -> val < t.min_cpus
      [] name \in {"cpufreq_up", "cpufreq_down"} -> val < 1 \/ val > 100
      [] OTHER -> val < 1 \/ val > 6

\* A store has just been recorded.
StoreStep == hist.log /\ hist'.wr # hist.wr

\* C11: a store of a value outside the valid bound of its attribute returns
\* -EINVAL and leaves the tunables, enabled and the cycle counter as they
\* were; so does a store to min_cpus of a value above the current max_cpus.
C11_OutOfBoundRejected ==
    [][(StoreStep /\ OutOfBound(hist'.wr.name, hist'.wr.val, tunables)) =>
         /\ hist'.wr.ret = "EINVAL"
         /\ UNCHANGED <<tunables, enabled, cycle>>]_vars

\* A store to min_cpus of a value within 1 .. 8 but above the current
\* max_cpus has returned -EINVAL.
C11_Witness ==
    /\ hist.wr.name = "min_cpus" /\ hist.wr.ret = "EINVAL"
    /\ hist.wr.val >= 1 /\ hist.wr.val <= MAX_CPUS_LIMIT
    /\ hist.wr.val > tunables.max_cpus

\* C19: whatever stores were made, 1 <= min_cpus <= max_cpus <= the number
\* of present cpus.
C19_CoreLimitsOrdered ==
    /\ 1 <= tunables.min_cpus
    /\ tunables.min_cpus <= tunables.max_cpus
    /\ tunables.max_cpus <= Cardinality(Present)

====
